---- MODULE Spec2Model ----
(***************************************************************************)
(* A model of qualprep (src/qualprep/qualprepfunctions.py): splitting of   *)
(* multi-valued categorical columns, normalization against a lookup table  *)
(* with row multiplication, category remapping, grouped aggregation, and   *)
(* the create_data pipeline that sequences them.                           *)
(*                                                                         *)
(* Text is a sequence of one-character strings, so that str.lower,         *)
(* str.split and str() are computed and not assumed.  A cell value is a    *)
(* tagged record: a str, a Python int, a float with an integral value, or  *)
(* the float NaN.  A data frame is its column names and its rows, each row *)
(* carrying its index label.                                               *)
(***************************************************************************)
EXTENDS Integers, Sequences, FiniteSets, TLC

VARIABLES call, pc, args, args0, dat, result, err, printed, stages

vars == <<call, pc, args, args0, dat, result, err, printed, stages>>

(***************************************************************************)
(* Bounds of the model.                                                    *)
(***************************************************************************)
MaxRows == 3
MaxRowsWide == 2
MaxInstr == 2
MaxKeys == 2
MaxLookup == 2

(***************************************************************************)
(* Values.                                                                 *)
(***************************************************************************)
None == [none |-> TRUE]

StrV(s) == [t |-> "str", s |-> s]
IntV(n) == [t |-> "int", n |-> n]
FloatV(n) == [t |-> "float", n |-> n]
NaN == [t |-> "nan"]

Range(f) == {f[i] : i \in DOMAIN f}

Ok(v) == [err |-> "", val |-> v]
Raise(e) == [err |-> e, val |-> None]

(***************************************************************************)
(* Text primitives of Python used by the program.                          *)
(***************************************************************************)
LowerChar(c) ==
    CASE c = "A" -> "a"
      [] c = "B" -> "b"
      [] c = "G" -> "g"
      [] c = "H" -> "h"
      [] OTHER -> c

\* str.lower()
Lower(s) == [i \in 1..Len(s) |-> LowerChar(s[i])]

DigitChar(d) ==
    CASE d = 0 -> "0" [] d = 1 -> "1" [] d = 2 -> "2" [] d = 3 -> "3"
      [] d = 4 -> "4" [] d = 5 -> "5" [] d = 6 -> "6" [] d = 7 -> "7"
      [] d = 8 -> "8" [] OTHER -> "9"

RECURSIVE IntToStr(_)
\* str(n) of a non-negative int
IntToStr(n) ==
    IF n < 10 THEN <<DigitChar(n)>>
    ELSE IntToStr(n \div 10) \o <<DigitChar(n % 10)>>

RECURSIVE SplitComma(_)
\* s.split(","): the parts between commas, empty parts included
SplitComma(s) ==
    IF \A i \in 1..Len(s) : s[i] # ","
    THEN <<s>>
    ELSE LET p == CHOOSE i \in 1..Len(s) :
                     s[i] = "," /\ \A j \in 1..(i - 1) : s[j] # ","
         IN  <<SubSeq(s, 1, p - 1)>> \o SplitComma(SubSeq(s, p + 1, Len(s)))

(***************************************************************************)
(* Helper functions.                                                       *)
(***************************************************************************)
is_nan(x) == x.t = "nan"

\* len(x) raises TypeError for a float
ResponseLengthRaises(x) == x.t \in {"float", "nan"}

response_length(x) == IF x.t = "int" THEN 1 ELSE Len(x.s)

\* str(val) of a str or an int
PyStr(x) == IF x.t = "int" THEN IntToStr(x.n) ELSE x.s

(***************************************************************************)
(* split_categorical_vars.  series is a sequence of [idx, val];            *)
(* values_and_labels is the dict as its sequence of [key, label] items.    *)
(***************************************************************************)
SplitTokens(val) ==
    IF response_length(val) > 1 THEN SplitComma(val.s) ELSE <<PyStr(val)>>

SplitRow(val, values_and_labels) ==
    IF is_nan(val)
    THEN [k \in 1..Len(values_and_labels) |-> IntV(0)]
    ELSE LET toks == SplitTokens(val)
         IN  [k \in 1..Len(values_and_labels) |->
                 IF values_and_labels[k].key \in Range(toks)
                 THEN IntV(1) ELSE IntV(0)]

Labels(values_and_labels) ==
    [k \in 1..Len(values_and_labels) |-> values_and_labels[k].label]

split_categorical_vars(series, values_and_labels) ==
    IF \E i \in 1..Len(series) :
          ~is_nan(series[i].val) /\ ResponseLengthRaises(series[i].val)
    THEN Raise("TypeError")
    ELSE Ok([columns |-> Labels(values_and_labels),
             rows |-> [i \in 1..Len(series) |->
                         [idx |-> i - 1,
                          cells |-> SplitRow(series[i].val, values_and_labels)]]])

(***************************************************************************)
(* Data frame primitives of pandas used by the program.  A frame is        *)
(* [columns, rows], a row is [idx, cells] with cells aligned to columns.   *)
(***************************************************************************)
HasColumn(df, name) == \E k \in 1..Len(df.columns) : df.columns[k] = name

\* Index.get_loc(name) of a column label that occurs once
ColPos(df, name) == CHOOSE k \in 1..Len(df.columns) : df.columns[k] = name

\* df[name] as a sequence of [idx, val]
ColumnOf(df, name) ==
    [i \in 1..Len(df.rows) |->
        [idx |-> df.rows[i].idx, val |-> df.rows[i].cells[ColPos(df, name)]]]

\* the sequence s without its position k
Without(s, k) == SubSeq(s, 1, k - 1) \o SubSeq(s, k + 1, Len(s))

\* df.drop(columns = name)
DropColumn(df, name) ==
    LET k == ColPos(df, name)
    IN  [columns |-> Without(df.columns, k),
         rows |-> [i \in 1..Len(df.rows) |->
                     [idx |-> df.rows[i].idx,
                      cells |-> Without(df.rows[i].cells, k)]]]

\* pd.concat([a, b], axis = 1) of two frames with the same index
ConcatColumns(a, b) ==
    [columns |-> a.columns \o b.columns,
     rows |-> [i \in 1..Len(a.rows) |->
                 [idx |-> a.rows[i].idx,
                  cells |-> a.rows[i].cells \o b.rows[i].cells]]]

\* df.reset_index(drop = True)
ResetIndex(df) ==
    [columns |-> df.columns,
     rows |-> [i \in 1..Len(df.rows) |->
                 [idx |-> i - 1, cells |-> df.rows[i].cells]]]

(***************************************************************************)
(* split_multiple_categorical_vars.  split_info is [columns, rows], a row  *)
(* being [variable_name, values_and_labels]; the dict literal of a row is  *)
(* held as the items ast.literal_eval gives.                               *)
(***************************************************************************)
SplitInfoColumns == <<"variable_name", "values_and_labels">>

\* split_info.columns = [...] assigns the labels of the caller's own table
SplitRenamed(split_info) ==
    [columns |-> SplitInfoColumns, rows |-> split_info.rows]

RECURSIVE SplitLoop(_, _, _)
SplitLoop(d, rows, k) ==
    IF k > Len(rows) THEN Ok(d)
    ELSE LET v == rows[k].variable_name
         IN  IF ~HasColumn(d, v) THEN Raise("KeyError")
             ELSE LET r == split_categorical_vars(ColumnOf(d, v),
                                                  rows[k].values_and_labels)
                  IN  IF r.err # "" THEN r
                      ELSE SplitLoop(ConcatColumns(DropColumn(d, v), r.val),
                                     rows, k + 1)

split_multiple_categorical_vars(data, split_info) ==
    SplitLoop(data, split_info.rows, 1)

(***************************************************************************)
(* get_lookup.  df is the wide normalization table [columns, rows], a row  *)
(* being [rawstring, repl]: the first column and the replacement slots     *)
(* (text or NaN).  The lookup is a sequence of [rawstring, normalized].    *)
(***************************************************************************)
\* df["rawstring"].str.lower(), then drop_duplicates(subset = ["rawstring"])
LoweredRows(df) ==
    [i \in 1..Len(df.rows) |->
        [rawstring |-> Lower(df.rows[i].rawstring), repl |-> df.rows[i].repl]]

\* the duplicates dropped with the last occurrence kept
RECURSIVE DropDuplicatesKeepLast(_, _)
DropDuplicatesKeepLast(rows, k) ==
    IF k > Len(rows) THEN <<>>
    ELSE (IF \E j \in (k + 1)..Len(rows) : rows[j].rawstring = rows[k].rawstring
          THEN <<>> ELSE <<rows[k]>>) \o DropDuplicatesKeepLast(rows, k + 1)

RECURSIVE DropDuplicates(_, _)
DropDuplicates(rows, k) ==
    IF k > Len(rows) THEN <<>>
    ELSE (IF \E j \in 1..(k - 1) : rows[j].rawstring = rows[k].rawstring
          THEN <<>> ELSE <<rows[k]>>) \o DropDuplicates(rows, k + 1)

RECURSIVE SlotPairs(_, _)
SlotPairs(row, i) ==
    IF i > Len(row.repl) THEN <<>>
    ELSE (IF row.repl[i] # NaN
          THEN <<[rawstring |-> Lower(row.rawstring), normalized |-> row.repl[i]]>>
          ELSE <<>>) \o SlotPairs(row, i + 1)

RECURSIVE LookupLoop(_, _)
LookupLoop(rows, k) ==
    IF k > Len(rows) THEN <<>>
    ELSE SlotPairs(rows[k], 1) \o LookupLoop(rows, k + 1)

get_lookup(df) == LookupLoop(DropDuplicates(LoweredRows(df), 1), 1)

(***************************************************************************)
(* replace and normalize_data.                                             *)
(***************************************************************************)
\* lookup.loc[lookup["rawstring"] == key, "normalized"]
RECURSIVE Matches(_, _, _)
Matches(lookup, key, k) ==
    IF k > Len(lookup) THEN <<>>
    ELSE (IF lookup[k].rawstring = key THEN <<lookup[k].normalized>> ELSE <<>>)
         \o Matches(lookup, key, k + 1)

\* replace with the replacements taken in reverse order
replaceReversed(replace_in_object, replacement_string, position) ==
    [j \in 1..Len(replacement_string) |->
        [idx |-> replace_in_object.idx,
         cells |-> [replace_in_object.cells EXCEPT
                      ![position] = replacement_string[Len(replacement_string) + 1 - j]]]]

\* one copy of the row per replacement, the cell at position set to it
replace(replace_in_object, replacement_string, position) ==
    [j \in 1..Len(replacement_string) |->
        [idx |-> replace_in_object.idx,
         cells |-> [replace_in_object.cells EXCEPT ![position] = replacement_string[j]]]]

\* the rows appended for one input row, and the messages printed for it
NormalizeRow(data, lookup, normalization_variable, i) ==
    LET val == data.rows[i].cells[ColPos(data, normalization_variable)]
        replacement_string == Matches(lookup, Lower(val.s), 1)
    IN  IF Len(replacement_string) = 0
        THEN [rows |-> <<>>, printed |-> <<[msg |-> "No entry found", val |-> val]>>]
        ELSE [rows |-> replace(data.rows[i], replacement_string,
                               ColPos(data, normalization_variable)),
              printed |-> <<>>]

RECURSIVE NormalizeLoop(_, _, _, _)
NormalizeLoop(data, lookup, normalization_variable, i) ==
    IF i > Len(data.rows) THEN [rows |-> <<>>, printed |-> <<>>]
    ELSE LET h == NormalizeRow(data, lookup, normalization_variable, i)
             t == NormalizeLoop(data, lookup, normalization_variable, i + 1)
         IN  [rows |-> h.rows \o t.rows, printed |-> h.printed \o t.printed]

\* [err, val, printed]
normalize_data(data, lookup, normalization_variable) ==
    IF Len(data.rows) > 0 /\ ~HasColumn(data, normalization_variable)
    THEN [err |-> "KeyError", val |-> None, printed |-> <<>>]
    ELSE IF \E i \in 1..Len(data.rows) :
               data.rows[i].cells[ColPos(data, normalization_variable)].t # "str"
    THEN LET bad == CHOOSE i \in 1..Len(data.rows) :
                      /\ data.rows[i].cells[ColPos(data, normalization_variable)].t # "str"
                      /\ \A j \in 1..(i - 1) :
                            data.rows[j].cells[ColPos(data, normalization_variable)].t = "str"
             done == NormalizeLoop([columns |-> data.columns,
                                    rows |-> SubSeq(data.rows, 1, bad - 1)],
                                   lookup, normalization_variable, 1)
         IN  [err |-> "AttributeError", val |-> None, printed |-> done.printed]
    ELSE LET r == NormalizeLoop(data, lookup, normalization_variable, 1)
         IN  [err |-> "", printed |-> r.printed,
              val |-> [columns |-> data.columns, rows |-> r.rows]]

(***************************************************************************)
(* repl_with_agg_string.  replacement_string_dict is the dict, held as     *)
(* [items], the sequence of its [key, label] items, the keys distinct.     *)
(***************************************************************************)
InDict(d, key) == \E k \in 1..Len(d.items) : d.items[k].key = key

DictGet(d, key) == d.items[CHOOSE k \in 1..Len(d.items) : d.items[k].key = key].label

\* a loop that leaves a value without a key as it is (dict.get(v, v))
RECURSIVE ReplLoopPassThrough(_, _, _, _)
ReplLoopPassThrough(data_updated, column, replacement_string_dict, i) ==
    IF i > Len(data_updated.rows) THEN Ok(data_updated)
    ELSE IF ~HasColumn(data_updated, column) THEN Raise("KeyError")
    ELSE LET p == ColPos(data_updated, column)
             v == data_updated.rows[i].cells[p]
         IN  ReplLoopPassThrough(
                 [data_updated EXCEPT !.rows[i].cells[p] =
                     IF InDict(replacement_string_dict, v)
                     THEN DictGet(replacement_string_dict, v) ELSE v],
                 column, replacement_string_dict, i + 1)

RECURSIVE ReplLoop(_, _, _, _)
ReplLoop(data_updated, column, replacement_string_dict, i) ==
    IF i > Len(data_updated.rows) THEN Ok(data_updated)
    ELSE IF ~HasColumn(data_updated, column) THEN Raise("KeyError")
    ELSE LET p == ColPos(data_updated, column)
             v == data_updated.rows[i].cells[p]
         IN  IF ~InDict(replacement_string_dict, v) THEN Raise("KeyError")
             ELSE ReplLoop([data_updated EXCEPT !.rows[i].cells[p] =
                                DictGet(replacement_string_dict, v)],
                           column, replacement_string_dict, i + 1)

repl_with_agg_string(data, column, replacement_string_dict) ==
    ReplLoop(ResetIndex(data), column, replacement_string_dict, 1)

(***************************************************************************)
(* Numbers produced by the reducers: a reduced fraction, or NaN.           *)
(***************************************************************************)
RECURSIVE GCD(_, _)
GCD(a, b) == IF b = 0 THEN a ELSE GCD(b, a % b)

Frac(a, b) ==
    LET g == GCD(a, b)
    IN  IF g = 0 THEN [t |-> "num", num |-> 0, den |-> 1]
        ELSE [t |-> "num", num |-> a \div g, den |-> b \div g]

Num(n) == [t |-> "num", num |-> n, den |-> 1]

IsNumber(v) == v.t \in {"int", "float"}

\* the non-missing numbers of a group, in row order
RECURSIVE Numbers(_, _)
Numbers(vals, k) ==
    IF k > Len(vals) THEN <<>>
    ELSE (IF IsNumber(vals[k]) THEN <<vals[k].n>> ELSE <<>>) \o Numbers(vals, k + 1)

RECURSIVE SumSeq(_, _)
SumSeq(ns, k) == IF k > Len(ns) THEN 0 ELSE ns[k] + SumSeq(ns, k + 1)

MaxOf(ns) == CHOOSE m \in Range(ns) : \A x \in Range(ns) : x <= m
MinOf(ns) == CHOOSE m \in Range(ns) : \A x \in Range(ns) : m <= x

RECURSIVE SortInts(_)
SortInts(ns) ==
    IF Len(ns) = 0 THEN <<>>
    ELSE LET k == CHOOSE i \in 1..Len(ns) : \A j \in 1..Len(ns) : ns[i] <= ns[j]
         IN  <<ns[k]>> \o SortInts(Without(ns, k))

(***************************************************************************)
(* The reducers.  Each takes the values of one group in row order.         *)
(***************************************************************************)
custom_mean(df) ==
    LET ns == Numbers(df, 1)
    IN  IF Len(ns) = 0 THEN NaN ELSE Frac(SumSeq(ns, 1), Len(ns))

custom_median(df) ==
    LET ns == SortInts(Numbers(df, 1))
        n == Len(ns)
    IN  IF n = 0 THEN NaN
        ELSE IF n % 2 = 1 THEN Num(ns[(n + 1) \div 2])
        ELSE Frac(ns[n \div 2] + ns[(n \div 2) + 1], 2)

custom_max(df) ==
    LET ns == Numbers(df, 1)
    IN  IF Len(ns) = 0 THEN NaN ELSE Num(MaxOf(ns))

custom_min(df) ==
    LET ns == Numbers(df, 1)
    IN  IF Len(ns) = 0 THEN NaN ELSE Num(MinOf(ns))

\* df_copy[df_copy != n] = 0 ; df_copy[df_copy == n] = 1 ; df_copy.max(skipna=True)
\* a comparison in which a missing value is not unequal to n
NotEqualsToSkipNaN(v, n) == IsNumber(v) /\ v.n # n

NotEqualsTo(v, n) == ~(IsNumber(v) /\ v.n = n)

MaskNotEqual(df, n) ==
    [k \in 1..Len(df) |-> IF NotEqualsTo(df[k], n) THEN IntV(0) ELSE df[k]]

MaskEqual(df, n) ==
    [k \in 1..Len(df) |-> IF ~NotEqualsTo(df[k], n) THEN IntV(1) ELSE df[k]]

custom_one(df) == custom_max(MaskEqual(MaskNotEqual(df, 1), 1))
custom_two(df) == custom_max(MaskEqual(MaskNotEqual(df, 2), 2))
\* custom_three with the constant of custom_one left in
custom_threeStale(df) == custom_max(MaskEqual(MaskNotEqual(df, 1), 1))

custom_three(df) == custom_max(MaskEqual(MaskNotEqual(df, 3), 3))
custom_four(df) == custom_max(MaskEqual(MaskNotEqual(df, 4), 4))
custom_five(df) == custom_max(MaskEqual(MaskNotEqual(df, 5), 5))
custom_six(df) == custom_max(MaskEqual(MaskNotEqual(df, 6), 6))

\* the reducers pandas itself resolves from a name given as a string
PandasSum(df) == Num(SumSeq(Numbers(df, 1), 1))
PandasCount(df) == Num(Len(Numbers(df, 1)))

PandasNames == {"sum", "count"}

(***************************************************************************)
(* aggregate_col.                                                          *)
(***************************************************************************)
\* the chain of ifs: the name of the custom reducer bound to agg_function,
\* or the string itself when no branch is taken
Dispatch(agg_function) ==
    CASE agg_function = "mean" -> "custom_mean"
      [] agg_function = "median" -> "custom_median"
      [] agg_function = "max" -> "custom_max"
      [] agg_function = "min" -> "custom_min"
      [] agg_function = "one" -> "custom_one"
      [] agg_function = "two" -> "custom_two"
      [] agg_function = "three" -> "custom_three"
      [] agg_function = "four" -> "custom_four"
      [] agg_function = "five" -> "custom_five"
      [] agg_function = "six" -> "custom_six"
      [] OTHER -> agg_function

CustomReducers ==
    {"custom_mean", "custom_median", "custom_max", "custom_min", "custom_one",
     "custom_two", "custom_three", "custom_four", "custom_five", "custom_six"}

\* .agg(f): a callable is applied, a string is looked up among pandas' own
Resolvable(f) == f \in CustomReducers \cup PandasNames

Reduce(f, df) ==
    CASE f = "custom_mean" -> custom_mean(df)
      [] f = "custom_median" -> custom_median(df)
      [] f = "custom_max" -> custom_max(df)
      [] f = "custom_min" -> custom_min(df)
      [] f = "custom_one" -> custom_one(df)
      [] f = "custom_two" -> custom_two(df)
      [] f = "custom_three" -> custom_three(df)
      [] f = "custom_four" -> custom_four(df)
      [] f = "custom_five" -> custom_five(df)
      [] f = "custom_six" -> custom_six(df)
      [] f = "sum" -> PandasSum(df)
      [] OTHER -> PandasCount(df)

\* the values of column col in the rows whose grouping value is key
RECURSIVE GroupValues(_, _, _, _, _)
GroupValues(data, gp, cp, key, i) ==
    IF i > Len(data.rows) THEN <<>>
    ELSE (IF data.rows[i].cells[gp] = key THEN <<data.rows[i].cells[cp]>> ELSE <<>>)
         \o GroupValues(data, gp, cp, key, i + 1)

\* groupby drops the rows whose grouping value is missing
GroupKeys(data, aggregation_column) ==
    {data.rows[i].cells[ColPos(data, aggregation_column)] : i \in 1..Len(data.rows)}
        \ {NaN}

\* [err, val]; val maps each group key to its reduced value
aggregate_col(data, aggregation_column, column_to_be_aggregated, agg_function) ==
    IF ~HasColumn(data, aggregation_column) \/ ~HasColumn(data, column_to_be_aggregated)
    THEN Raise("KeyError")
    ELSE IF ~Resolvable(Dispatch(agg_function)) THEN Raise("AttributeError")
    ELSE Ok([key \in GroupKeys(data, aggregation_column) |->
                Reduce(Dispatch(agg_function),
                       GroupValues(data, ColPos(data, aggregation_column),
                                   ColPos(data, column_to_be_aggregated), key, 1))])

(***************************************************************************)
(* Order of text, as Python compares str: by code point, then by length.   *)
(***************************************************************************)
CharOrder ==
    <<",", "0", "1", "2", "3", "4", "5", "6", "7", "8", "9",
      "A", "B", "G", "H", "_",
      "a", "b", "c", "d", "e", "f", "g", "h", "i", "j", "k", "l", "m", "n",
      "o", "p", "q", "r", "s", "t", "u", "v", "w", "x", "y", "z">>

CharRank(c) == CHOOSE i \in 1..Len(CharOrder) : CharOrder[i] = c

RECURSIVE StrLess(_, _)
StrLess(a, b) ==
    IF Len(b) = 0 THEN FALSE
    ELSE IF Len(a) = 0 THEN TRUE
    ELSE IF a[1] # b[1] THEN CharRank(a[1]) < CharRank(b[1])
    ELSE StrLess(Tail(a), Tail(b))

RECURSIVE SortText(_)
\* the texts of a finite set in increasing order
SortText(S) ==
    IF S = {} THEN <<>>
    ELSE LET m == CHOOSE x \in S : \A y \in S \ {x} : StrLess(x, y)
         IN  <<m>> \o SortText(S \ {m})

(***************************************************************************)
(* pd.get_dummies(dat[dummies], prefix = dummies).                         *)
(***************************************************************************)
\* a column is encoded when its dtype is object: it holds text, or nothing
ObjectDtype(d, name) ==
    \/ Len(d.rows) = 0
    \/ \E i \in 1..Len(d.rows) : d.rows[i].cells[ColPos(d, name)].t = "str"

DummyLevels(d, name) ==
    SortText({d.rows[i].cells[ColPos(d, name)].s :
                 i \in {j \in 1..Len(d.rows) : d.rows[j].cells[ColPos(d, name)].t = "str"}})

DummyName(prefix, level) == prefix \o <<"_">> \o level

DummiesOf(d, name) ==
    LET levels == DummyLevels(d, name)
    IN  [columns |-> [k \in 1..Len(levels) |-> DummyName(name, levels[k])],
         rows |-> [i \in 1..Len(d.rows) |->
                     [idx |-> d.rows[i].idx,
                      cells |-> [k \in 1..Len(levels) |->
                                   IF d.rows[i].cells[ColPos(d, name)] = StrV(levels[k])
                                   THEN IntV(1) ELSE IntV(0)]]]]

RECURSIVE GetDummies(_, _, _)
GetDummies(d, dummies, k) ==
    IF k > Len(dummies)
    THEN [columns |-> <<>>,
          rows |-> [i \in 1..Len(d.rows) |-> [idx |-> d.rows[i].idx, cells |-> <<>>]]]
    ELSE ConcatColumns(DummiesOf(d, dummies[k]), GetDummies(d, dummies, k + 1))

(***************************************************************************)
(* aggregate_data.  aggregation_information is [columns, rows], a row      *)
(* being [variable, agg_function].                                         *)
(***************************************************************************)
AggInfoColumns == <<"variable", "agg_function">>

\* aggregation_information.columns = [...] assigns the labels of the caller's table
AggRenamed(aggregation_information) ==
    [columns |-> AggInfoColumns, rows |-> aggregation_information.rows]

RECURSIVE DummyVariables(_, _)
DummyVariables(rows, k) ==
    IF k > Len(rows) THEN <<>>
    ELSE (IF rows[k].agg_function = "dummy" THEN <<rows[k].variable>> ELSE <<>>)
         \o DummyVariables(rows, k + 1)

DummyInstructions(dat_dummies) ==
    [k \in 1..Len(dat_dummies.columns) |->
        [variable |-> dat_dummies.columns[k], agg_function |-> "max"]]

RECURSIVE RemoveOld(_, _, _)
\* aggregation_information[~aggregation_information["variable"].isin(dummies)]
RemoveOld(rows, dummies, k) ==
    IF k > Len(rows) THEN <<>>
    ELSE (IF rows[k].variable \in Range(dummies) THEN <<>> ELSE <<rows[k]>>)
         \o RemoveOld(rows, dummies, k + 1)

\* the instructions applied: [err, dat, rows]
Instructions(data, aggregation_information) ==
    LET dummies == DummyVariables(aggregation_information.rows, 1)
    IN  IF Len(dummies) = 0
        THEN [err |-> "", dat |-> data, rows |-> aggregation_information.rows]
        ELSE IF \E k \in 1..Len(dummies) : ~HasColumn(data, dummies[k])
        THEN [err |-> "KeyError", dat |-> data, rows |-> <<>>]
        ELSE IF \E k \in 1..Len(dummies) : ~ObjectDtype(data, dummies[k])
        THEN [err |-> "ValueError", dat |-> data, rows |-> <<>>]
        ELSE LET dat_dummies == GetDummies(data, dummies, 1)
             IN  [err |-> "",
                  dat |-> ConcatColumns(data, dat_dummies),
                  rows |-> RemoveOld(aggregation_information.rows
                                        \o DummyInstructions(dat_dummies),
                                     dummies, 1)]

\* the grouping column taken without drop_duplicates
RECURSIVE KeepDuplicateKeys(_, _, _)
KeepDuplicateKeys(d, p, i) ==
    IF i > Len(d.rows) THEN <<>>
    ELSE <<[idx |-> d.rows[i].idx, cells |-> <<d.rows[i].cells[p]>>]>>
         \o KeepDuplicateKeys(d, p, i + 1)

RECURSIVE DropDuplicateKeys(_, _, _)
\* dat[aggregation_variable].drop_duplicates(): first occurrences, NaN included
DropDuplicateKeys(d, p, i) ==
    IF i > Len(d.rows) THEN <<>>
    ELSE (IF \E j \in 1..(i - 1) : d.rows[j].cells[p] = d.rows[i].cells[p]
          THEN <<>>
          ELSE <<[idx |-> d.rows[i].idx, cells |-> <<d.rows[i].cells[p]>>]>>)
         \o DropDuplicateKeys(d, p, i + 1)

RECURSIVE InnerRows(_, _, _)
InnerRows(rows, right, i) ==
    IF i > Len(rows) THEN <<>>
    ELSE (IF rows[i].cells[1] \in DOMAIN right
          THEN <<[idx |-> 0, cells |-> rows[i].cells \o <<right[rows[i].cells[1]]>>]>>
          ELSE <<>>) \o InnerRows(rows, right, i + 1)

\* the column labels of a merge: a label on both sides gets _x and _y
MergeColumns(columns, name) ==
    IF \E k \in 2..Len(columns) : columns[k] = name
    THEN [k \in 1..Len(columns) |->
             IF k > 1 /\ columns[k] = name THEN name \o <<"_", "x">> ELSE columns[k]]
         \o <<name \o <<"_", "y">>>>
    ELSE columns \o <<name>>

\* pd.merge(data_aggregated, aggregated_col, on = aggregation_variable)
Merge(data_aggregated, name, right) ==
    ResetIndex([columns |-> MergeColumns(data_aggregated.columns, name),
                rows |-> InnerRows(data_aggregated.rows, right, 1)])

RECURSIVE AggregateLoop(_, _, _, _, _)
AggregateLoop(d, data_aggregated, rows, aggregation_variable, k) ==
    IF k > Len(rows) THEN Ok(data_aggregated)
    ELSE LET aggregated_col == aggregate_col(d, aggregation_variable,
                                             rows[k].variable, rows[k].agg_function)
         IN  IF aggregated_col.err # "" THEN aggregated_col
             ELSE IF rows[k].variable = aggregation_variable THEN Raise("ValueError")
             ELSE AggregateLoop(d,
                                Merge(data_aggregated, rows[k].variable,
                                      aggregated_col.val),
                                rows, aggregation_variable, k + 1)

aggregate_data(data, aggregation_information, aggregation_variable) ==
    LET ins == Instructions(data, aggregation_information)
    IN  IF ins.err # "" THEN Raise(ins.err)
        ELSE IF ~HasColumn(ins.dat, aggregation_variable) THEN Raise("KeyError")
        ELSE AggregateLoop(ins.dat,
                           [columns |-> <<aggregation_variable>>,
                            rows |-> DropDuplicateKeys(
                                         ins.dat,
                                         ColPos(ins.dat, aggregation_variable), 1)],
                           ins.rows, aggregation_variable, 1)

(***************************************************************************)
(* The inputs the calls are made with.                                     *)
(***************************************************************************)
SeqUpTo(S, n) == UNION {[1..k -> S] : k \in 0..n}

Injective(f) == \A i, j \in DOMAIN f : f[i] = f[j] => i = j

IndexKinds == {"range", "labels"}

IndexLabel(kind, i) == IF kind = "range" THEN i - 1 ELSE 10 * i

Frame(columns, cellrows, kind) ==
    [columns |-> columns,
     rows |-> [i \in 1..Len(cellrows) |->
                 [idx |-> IndexLabel(kind, i), cells |-> cellrows[i]]]]

tSpecies == <<"s", "p", "e", "c", "i", "e", "s">>
tSeen == <<"s", "e", "e", "n">>
tColor == <<"c", "o", "l", "o", "r">>
tSight == <<"s", "i", "g", "h", "t">>
tOrg == <<"o", "r", "g">>
tN == <<"n">>
tMorning == <<"m", "o", "r", "n", "i", "n", "g">>
tEvening == <<"e", "v", "e", "n", "i", "n", "g">>
tNoon == <<"n", "o", "o", "n">>
tOther == <<"o", "t", "h", "e", "r">>

Owl == StrV(<<"o", "w", "l">>)
Hawk == StrV(<<"h", "a", "w", "k">>)
Red == StrV(<<"r", "e", "d">>)
Blue == StrV(<<"b", "l", "u", "e">>)
Bird == StrV(<<"b", "i", "r", "d">>)
Plant == StrV(<<"p", "l", "a", "n", "t">>)
GilaW == StrV(<<"g", "w">>)
GilaT == StrV(<<"g", "t">>)

\* raw strings: two that differ in letter case only, and another
RawStrings == {<<"G", "a">>, <<"g", "a">>, <<"x">>}

\* values of a column to split
SplitValues ==
    {StrV(<<"1">>), StrV(<<"1", ",", "3">>), StrV(<<"1", "3">>), StrV(<<"3", ",">>),
     StrV(<<",">>), IntV(1), IntV(13), FloatV(3), NaN}

SplitKeys == {<<"1">>, <<"3">>, <<"1", "3">>, <<>>}

LabelOfKey(k) ==
    CASE k = <<"1">> -> tMorning
      [] k = <<"3">> -> tEvening
      [] k = <<"1", "3">> -> tNoon
      [] OTHER -> tOther

ValueLabelMaps ==
    {[i \in DOMAIN ks |-> [key |-> ks[i], label |-> LabelOfKey(ks[i])]] :
        ks \in {f \in SeqUpTo(SplitKeys, MaxKeys) : Injective(f)}}

SightMap ==
    <<[key |-> <<"1">>, label |-> tMorning], [key |-> <<"3">>, label |-> tEvening]>>

SplitInfoRows ==
    SeqUpTo({[variable_name |-> tSight, values_and_labels |-> SightMap],
             [variable_name |-> tSpecies,
              values_and_labels |-> <<[key |-> <<"x">>, label |-> tOther]>>]},
            MaxInstr)

\* the labels the caller gave the two columns of an instruction table
SplitCallerColumns == {<<"variable_name", "values_and_labels">>, <<"var", "map">>}

AggCallerColumns == {<<"variable", "agg_function">>, <<"var", "fn">>}

\* datasets with a free-text column and a column to split
SurveyRows ==
    {<<StrV(r), v>> : r \in {<<"G", "a">>, <<"x">>},
                      v \in {StrV(<<"1", ",", "3">>), IntV(1), NaN}}

SurveyData(kind) ==
    {Frame(<<tSpecies, tSight>>, rs, kind) : rs \in SeqUpTo(SurveyRows, MaxRowsWide)}

\* datasets with a column to normalize and a column to carry along
OrgRows == {<<StrV(r), IntV(n)>> : r \in RawStrings, n \in {5, 6}}

OrgData(kind) ==
    {Frame(<<tOrg, tN>>, rs, kind) : rs \in SeqUpTo(OrgRows, MaxRowsWide)}

Lookups ==
    SeqUpTo({[rawstring |-> r, normalized |-> v] :
                r \in {<<"g", "a">>, <<"x">>}, v \in {GilaW, GilaT}}, MaxLookup)

SlotRows == {<<GilaW, GilaT>>, <<GilaT, GilaW>>, <<GilaW, NaN>>, <<NaN, GilaT>>,
             <<NaN, NaN>>, <<GilaT, NaN, GilaW>>}

NormalizationColumns == <<"raw", "replacement_1", "replacement_2", "replacement_3">>

NormalizationTables ==
    {[columns |-> NormalizationColumns, rows |-> rs] :
        rs \in SeqUpTo({[rawstring |-> r, repl |-> sl] :
                           r \in RawStrings, sl \in SlotRows}, MaxLookup)}

GroupMaps ==
    {[items |-> [i \in DOMAIN ks |->
                   [key |-> StrV(ks[i]),
                    label |-> IF ks[i] = <<"x">> THEN Plant ELSE Bird]]] :
        ks \in {f \in SeqUpTo(RawStrings, MaxKeys) : Injective(f)}}

\* datasets to aggregate
CountRows == {<<g, v>> : g \in {Owl, Hawk}, v \in {IntV(n) : n \in 1..6} \cup {NaN}}

CountData == {Frame(<<tSpecies, tSeen>>, rs, "range") : rs \in SeqUpTo(CountRows, MaxRowsWide)}

FunctionNames ==
    {"mean", "median", "max", "min", "dummy", "one", "two", "three", "four",
     "five", "six", "sum", "bogus"}

SightingRows == {<<g, IntV(n)>> : g \in {Owl, Hawk, NaN}, n \in {1, 3}}

SightingData ==
    {Frame(<<tSpecies, tSeen>>, rs, "range") : rs \in SeqUpTo(SightingRows, MaxRows)}

SightingInstructions ==
    SeqUpTo({[variable |-> tSeen, agg_function |-> f] : f \in {"three", "max", "bogus"}},
            MaxInstr)

\* a colour may be missing
ColorRows == {<<g, IntV(n), c>> : g \in {Owl, Hawk}, n \in {1, 3}, c \in {Red, Blue, NaN}}

ColorData == {Frame(<<tSpecies, tSeen, tColor>>, rs, "range") :
                 rs \in SeqUpTo(ColorRows, MaxRowsWide)}

\* the column of numbers may be flagged dummy as well; a reducer is asked of
\* the text column only where that column is also flagged dummy
ColorInstructions ==
    {rs \in SeqUpTo({[variable |-> tSeen, agg_function |-> "three"],
                     [variable |-> tSeen, agg_function |-> "mean"],
                     [variable |-> tSeen, agg_function |-> "dummy"],
                     [variable |-> tColor, agg_function |-> "max"],
                     [variable |-> tColor, agg_function |-> "dummy"]}, MaxInstr) :
        [variable |-> tColor, agg_function |-> "max"] \in Range(rs)
            => [variable |-> tColor, agg_function |-> "dummy"] \in Range(rs)}

NoArgs ==
    [series |-> None, values_and_labels |-> None, data |-> None,
     split_info |-> None, df |-> None, lookup |-> None,
     normalization_info |-> None, normalization_variable |-> None,
     column |-> None, replacement_string_dict |-> None,
     aggregation_column |-> None, column_to_be_aggregated |-> None,
     agg_function |-> None, aggregation_information |-> None,
     aggregation_variable |-> None, aggregation_category_dict |-> None,
     aggregation_category_variable |-> None]

\* the configurations create_data is called with
PipelineSplitInfos ==
    {None} \cup {[columns |-> c,
                  rows |-> <<[variable_name |-> tSight, values_and_labels |-> SightMap]>>] :
                    c \in SplitCallerColumns}

PipelineNormalizationInfos ==
    {None, [columns |-> NormalizationColumns,
            rows |-> <<[rawstring |-> <<"G", "A">>, repl |-> <<GilaW, NaN, GilaT>>]>>]}

PipelineGroupMaps ==
    {None, [items |-> <<[key |-> GilaW, label |-> Bird],
                        [key |-> GilaT, label |-> Bird],
                        [key |-> StrV(<<"G", "a">>), label |-> Bird]>>]}

PipelineAggregations ==
    {None,
     [columns |-> <<"variable", "agg_function">>,
      rows |-> <<[variable |-> tSight, agg_function |-> "one"]>>],
     [columns |-> <<"var", "fn">>,
      rows |-> <<[variable |-> tMorning, agg_function |-> "max"]>>]}

Start(c, a) ==
    /\ call = c
    /\ args = a
    /\ args0 = a
    /\ pc = "ready"
    /\ dat = None
    /\ result = None
    /\ err = ""
    /\ printed = <<>>
    /\ stages = <<>>

InitSplitCategorical ==
    \E vs \in SeqUpTo(SplitValues, MaxRowsWide), m \in ValueLabelMaps :
        Start("split_categorical_vars",
              [NoArgs EXCEPT !.series = [i \in DOMAIN vs |-> [idx |-> i - 1, val |-> vs[i]]],
                             !.values_and_labels = m])

InitSplitMultiple ==
    \E d \in SurveyData("range"), cols \in SplitCallerColumns, rs \in SplitInfoRows :
        Start("split_multiple_categorical_vars",
              [NoArgs EXCEPT !.data = d, !.split_info = [columns |-> cols, rows |-> rs]])

InitGetLookup ==
    \E t \in NormalizationTables : Start("get_lookup", [NoArgs EXCEPT !.df = t])

InitNormalize ==
    \E d \in OrgData("labels"), l \in Lookups :
        Start("normalize_data",
              [NoArgs EXCEPT !.data = d, !.lookup = l, !.normalization_variable = tOrg])

InitReplace ==
    \E k \in IndexKinds : \E d \in OrgData(k), m \in GroupMaps :
        Start("repl_with_agg_string",
              [NoArgs EXCEPT !.data = d, !.column = tOrg, !.replacement_string_dict = m])

InitAggregateCol ==
    \E d \in CountData, f \in FunctionNames :
        Start("aggregate_col",
              [NoArgs EXCEPT !.data = d, !.aggregation_column = tSpecies,
                             !.column_to_be_aggregated = tSeen, !.agg_function = f])

InitAggregateData ==
    \/ \E d \in SightingData, cols \in AggCallerColumns, rs \in SightingInstructions :
          Start("aggregate_data",
                [NoArgs EXCEPT !.data = d, !.aggregation_variable = tSpecies,
                               !.aggregation_information = [columns |-> cols, rows |-> rs]])
    \/ \E d \in ColorData, rs \in ColorInstructions :
          Start("aggregate_data",
                [NoArgs EXCEPT !.data = d, !.aggregation_variable = tSpecies,
                               !.aggregation_information =
                                   [columns |-> AggInfoColumns, rows |-> rs]])

InitCreateData ==
    \E k \in IndexKinds : \E d \in SurveyData(k),
       si \in PipelineSplitInfos, ni \in PipelineNormalizationInfos,
       gm \in PipelineGroupMaps, ai \in PipelineAggregations :
        Start("create_data",
              [NoArgs EXCEPT !.data = d, !.split_info = si,
                             !.normalization_info = ni,
                             !.normalization_variable = tSpecies,
                             !.aggregation_category_dict = gm,
                             !.aggregation_category_variable = tSpecies,
                             !.aggregation_information = ai,
                             !.aggregation_variable = tSpecies])

(***************************************************************************)
(* The state machine.  call is the function the caller invokes, args the   *)
(* caller's own objects passed to it (args0 what they were before the      *)
(* call), result and err how the call ended, printed what it wrote to the  *)
(* console.  dat is create_data's local dataset and stages the stages it   *)
(* has executed, each with the dataset it was given and the one it gave.   *)
(***************************************************************************)
Init ==
    \/ InitSplitCategorical
    \/ InitSplitMultiple
    \/ InitGetLookup
    \/ InitNormalize
    \/ InitReplace
    \/ InitAggregateCol
    \/ InitAggregateData
    \/ InitCreateData

\* how a call ends: with its return value, or with the exception it raised
Finish(r) ==
    /\ result' = r.val
    /\ err' = r.err
    /\ pc' = IF r.err = "" THEN "returned" ELSE "raised"

CallSplitCategorical ==
    /\ call = "split_categorical_vars" /\ pc = "ready"
    /\ Finish(split_categorical_vars(args.series, args.values_and_labels))
    /\ UNCHANGED <<call, args, args0, dat, printed, stages>>

CallSplitMultiple ==
    /\ call = "split_multiple_categorical_vars" /\ pc = "ready"
    /\ args' = [args EXCEPT !.split_info = SplitRenamed(@)]
    /\ Finish(split_multiple_categorical_vars(args.data, args.split_info))
    /\ UNCHANGED <<call, args0, dat, printed, stages>>

CallGetLookup ==
    /\ call = "get_lookup" /\ pc = "ready"
    /\ Finish(Ok(get_lookup(args.df)))
    /\ UNCHANGED <<call, args, args0, dat, printed, stages>>

CallNormalize ==
    /\ call = "normalize_data" /\ pc = "ready"
    /\ LET r == normalize_data(args.data, args.lookup, args.normalization_variable)
       IN  Finish(r) /\ printed' = r.printed
    /\ UNCHANGED <<call, args, args0, dat, stages>>

CallReplace ==
    /\ call = "repl_with_agg_string" /\ pc = "ready"
    /\ Finish(repl_with_agg_string(args.data, args.column, args.replacement_string_dict))
    /\ UNCHANGED <<call, args, args0, dat, printed, stages>>

CallAggregateCol ==
    /\ call = "aggregate_col" /\ pc = "ready"
    /\ Finish(aggregate_col(args.data, args.aggregation_column,
                            args.column_to_be_aggregated, args.agg_function))
    /\ UNCHANGED <<call, args, args0, dat, printed, stages>>

CallAggregateData ==
    /\ call = "aggregate_data" /\ pc = "ready"
    /\ args' = [args EXCEPT !.aggregation_information = AggRenamed(@)]
    /\ Finish(aggregate_data(args.data, args.aggregation_information,
                             args.aggregation_variable))
    /\ UNCHANGED <<call, args0, dat, printed, stages>>

(***************************************************************************)
(* create_data, one step per stage.                                        *)
(***************************************************************************)
\* the stage's configuration argument is not None
Configured(stage, a) ==
    CASE stage = "split" -> a.split_info # None
      [] stage = "normalize" -> a.normalization_info # None
      [] stage = "remap" -> a.aggregation_category_dict # None
      [] OTHER -> a.aggregation_information # None

\* the stages with the remap placed before the normalization
NextStageSwapped(stage) ==
    CASE stage = "split" -> "remap"
      [] stage = "remap" -> "normalize"
      [] stage = "normalize" -> "aggregate"
      [] OTHER -> "done"

\* the statement after a stage
NextStage(stage) ==
    CASE stage = "split" -> "normalize"
      [] stage = "normalize" -> "remap"
      [] stage = "remap" -> "aggregate"
      [] OTHER -> "done"

\* the dataset a stage is handed: dat, its index reset before the aggregation
StageInput(stage, d) == IF stage = "aggregate" THEN ResetIndex(d) ELSE d

\* the call a stage makes: [err, val, printed]
StageResult(stage, d, a) ==
    CASE stage = "split" ->
           LET r == split_multiple_categorical_vars(d, a.split_info)
           IN  [err |-> r.err, val |-> r.val, printed |-> <<>>]
      [] stage = "normalize" ->
           normalize_data(d, get_lookup(a.normalization_info), a.normalization_variable)
      [] stage = "remap" ->
           LET r == repl_with_agg_string(d, a.aggregation_category_variable,
                                         a.aggregation_category_dict)
           IN  [err |-> r.err, val |-> r.val, printed |-> <<>>]
      [] OTHER ->
           LET r == aggregate_data(d, a.aggregation_information, a.aggregation_variable)
           IN  [err |-> r.err, val |-> r.val, printed |-> <<>>]

\* the caller's objects after the call a stage makes
ArgsAfter(stage, a) ==
    CASE stage = "split" -> [a EXCEPT !.split_info = SplitRenamed(@)]
      [] stage = "aggregate" ->
           [a EXCEPT !.aggregation_information = AggRenamed(@)]
      [] OTHER -> a

Advance(stage, d) ==
    IF NextStage(stage) = "done"
    THEN pc' = "returned" /\ result' = d
    ELSE pc' = NextStage(stage) /\ result' = result

Stage(stage) ==
    /\ call = "create_data" /\ pc = stage
    /\ IF Configured(stage, args)
       THEN LET d == StageInput(stage, dat)
                r == StageResult(stage, d, args)
            IN  /\ args' = ArgsAfter(stage, args)
                /\ printed' = printed \o r.printed
                /\ err' = r.err
                /\ IF r.err # ""
                   THEN pc' = "raised" /\ UNCHANGED <<dat, result, stages>>
                   ELSE /\ dat' = r.val
                        /\ stages' = Append(stages, [stage |-> stage, input |-> d,
                                                     output |-> r.val])
                        /\ Advance(stage, r.val)
       ELSE /\ dat' = StageInput(stage, dat)
            /\ Advance(stage, StageInput(stage, dat))
            /\ UNCHANGED <<args, printed, err, stages>>
    /\ UNCHANGED <<call, args0>>

CreateDataBegin ==
    /\ call = "create_data" /\ pc = "ready"
    /\ dat' = ResetIndex(args.data)
    /\ pc' = "split"
    /\ UNCHANGED <<call, args, args0, result, err, printed, stages>>

CreateDataSplit == Stage("split")

CreateDataNormalize == Stage("normalize")

CreateDataRemap == Stage("remap")

CreateDataAggregate == Stage("aggregate")

Next ==
    \/ CallSplitCategorical
    \/ CallSplitMultiple
    \/ CallGetLookup
    \/ CallNormalize
    \/ CallReplace
    \/ CallAggregateCol
    \/ CallAggregateData
    \/ CreateDataBegin
    \/ CreateDataSplit
    \/ CreateDataNormalize
    \/ CreateDataRemap
    \/ CreateDataAggregate

Spec == Init /\ [][Next]_vars

(***************************************************************************)
(* Properties.                                                             *)
(***************************************************************************)
Returned(c) == call = c /\ pc = "returned"

Ended(c) == call = c /\ pc \in {"returned", "raised"}

\* the positions of the lookup entries of a key, and the m-th of them
EntriesOf(lookup, key) == {k \in 1..Len(lookup) : lookup[k].rawstring = key}

NthEntry(lookup, key, m) ==
    CHOOSE k \in EntriesOf(lookup, key) :
        Cardinality({j \in EntriesOf(lookup, key) : j < k}) = m - 1

\* the text of the target column in input row i of normalize_data, lowercased
NormKey(i) ==
    Lower(args0.data.rows[i].cells[ColPos(args0.data, args0.normalization_variable)].s)

\* the positions of the output rows that carry the index label of input row i
RowsFor(i) == {j \in 1..Len(result.rows) : result.rows[j].idx = args0.data.rows[i].idx}

\* C1: in normalize_data, an input row whose lowercased target value has no
\* entry in the lookup table has exactly one output row, identical to it.
C1_UnmatchedRowKept ==
    Returned("normalize_data") =>
        \A i \in 1..Len(args0.data.rows) :
            EntriesOf(args0.lookup, NormKey(i)) = {} =>
                /\ Cardinality(RowsFor(i)) = 1
                /\ \A j \in RowsFor(i) : result.rows[j] = args0.data.rows[i]

MinPos(S) == CHOOSE m \in S : \A x \in S : m <= x
MaxPos(S) == CHOOSE m \in S : \A x \in S : x <= m

\* C2: in normalize_data, an input row whose lowercased target value has
\* k >= 1 entries in the lookup table has exactly k output rows, consecutive,
\* the m-th equal to the input row but for the target column, which holds the
\* m-th normalized value in lookup order; the blocks follow input order.
C2_MatchedRowMultiplied ==
    Returned("normalize_data") =>
        LET d == args0.data
            p == ColPos(d, args0.normalization_variable)
            K(i) == Cardinality(EntriesOf(args0.lookup, NormKey(i)))
        IN  /\ result.columns = d.columns
            /\ \A i \in 1..Len(d.rows) :
                 K(i) >= 1 =>
                    /\ Cardinality(RowsFor(i)) = K(i)
                    /\ MaxPos(RowsFor(i)) - MinPos(RowsFor(i)) + 1 = K(i)
                    /\ \A m \in 1..K(i) :
                         LET out == result.rows[MinPos(RowsFor(i)) + m - 1]
                         IN  /\ out.idx = d.rows[i].idx
                             /\ \A c \in 1..Len(d.columns) :
                                  out.cells[c] =
                                    IF c = p
                                    THEN args0.lookup[NthEntry(args0.lookup, NormKey(i), m)].normalized
                                    ELSE d.rows[i].cells[c]
            /\ \A i1, i2 \in 1..Len(d.rows) :
                 (i1 < i2 /\ K(i1) >= 1 /\ K(i2) >= 1) =>
                    MaxPos(RowsFor(i1)) < MinPos(RowsFor(i2))

\* a row multiplied into two and a later matched row, both in the output
C2_Witness ==
    /\ Returned("normalize_data")
    /\ \E i1, i2 \in 1..Len(args0.data.rows) :
         /\ i1 < i2
         /\ Cardinality(EntriesOf(args0.lookup, NormKey(i1))) = 2
         /\ Cardinality(EntriesOf(args0.lookup, NormKey(i2))) >= 1
         /\ args0.data.rows[i1].cells[1].s # NormKey(i1)
         /\ Len(result.rows) >= 3

ReducerNumber(f) ==
    CASE f = "one" -> 1 [] f = "two" -> 2 [] f = "three" -> 3
      [] f = "four" -> 4 [] f = "five" -> 5 [] OTHER -> 6

NumberReducers == {"one", "two", "three", "four", "five", "six"}

\* the grouping values and the values of a column, by row, of the dataset aggregated
GroupCell(i) == args0.data.rows[i].cells[ColPos(args0.data, tSpecies)]
SeenCell(i) == args0.data.rows[i].cells[ColPos(args0.data, tSeen)]
InputRows == 1..Len(args0.data.rows)

\* C3: the reducer named by N in one..six gives a group 1 when some row of
\* the group holds exactly the value N and 0 otherwise; a missing value is
\* never a match, and a group of missing values only gives 0, not missing.
C3_NumberReducers ==
    (Returned("aggregate_col") /\ args0.agg_function \in NumberReducers) =>
        /\ DOMAIN result = {GroupCell(i) : i \in InputRows} \ {NaN}
        /\ \A key \in DOMAIN result :
             result[key] =
                IF \E i \in InputRows :
                      /\ GroupCell(i) = key
                      /\ SeenCell(i) = IntV(ReducerNumber(args0.agg_function))
                THEN Num(1) ELSE Num(0)

\* "three" over a group of missing values only and a group holding a 3
C3_Witness ==
    /\ Returned("aggregate_col") /\ args0.agg_function = "three"
    /\ {SeenCell(i) : i \in {j \in InputRows : GroupCell(j) = Owl}} = {NaN}
    /\ {SeenCell(i) : i \in {j \in InputRows : GroupCell(j) = Hawk}} = {IntV(3)}
    /\ result[Owl] = Num(0) /\ result[Hawk] = Num(1)

C4Scenario ==
    /\ call = "aggregate_data"
    /\ args0.data = Frame(<<tSpecies, tSeen>>,
                          <<<<Owl, IntV(1)>>, <<Owl, IntV(3)>>, <<Hawk, IntV(3)>>>>,
                          "range")
    /\ args0.aggregation_information.rows = <<[variable |-> tSeen, agg_function |-> "three"]>>
    /\ args0.aggregation_variable = tSpecies

\* the grouping values of the output rows, and the value aggregated for one
OutputKeys == [j \in 1..Len(result.rows) |-> result.rows[j].cells[1]]

GroupValue(key) ==
    result.rows[CHOOSE j \in 1..Len(result.rows) : result.rows[j].cells[1] = key].cells[2]

\* C4 as stated: species = [owl, owl, hawk], seen = [1, 3, 3], grouped by
\* species with (seen, "three"), gives owl: 0 and hawk: 1.
C4_ScenarioAsStated ==
    (C4Scenario /\ pc # "ready") =>
        /\ pc = "returned"
        /\ Range(OutputKeys) = {Owl, Hawk}
        /\ GroupValue(Owl) = Num(0) /\ GroupValue(Hawk) = Num(1)

\* C4: species = [owl, owl, hawk], seen = [1, 3, 3], grouped by species with
\* (seen, "three"), gives owl: 1 (its second row holds a 3) and hawk: 1.
C4_Scenario ==
    (C4Scenario /\ pc # "ready") =>
        /\ pc = "returned"
        /\ Len(result.rows) = 2
        /\ Range(OutputKeys) = {Owl, Hawk}
        /\ GroupValue(Owl) = Num(1) /\ GroupValue(Hawk) = Num(1)

C4_Witness == C4Scenario /\ pc = "returned" /\ Len(result.rows) = 2

InputKeys == {GroupCell(i) : i \in InputRows}

\* C5 as stated: the output of aggregate_data has exactly one row for each
\* distinct value of the grouping column in the input, a missing value
\* included, and no other rows.
C5_OneRowPerValue ==
    Returned("aggregate_data") =>
        /\ Injective(OutputKeys)
        /\ Range(OutputKeys) = InputKeys

\* C5: the output of aggregate_data has exactly one row for each distinct
\* non-missing value of the grouping column in the input and no row for any
\* other non-missing value; a missing grouping value of the input has a row
\* when the instruction list is empty and none when an instruction is applied.
C5_OneRowPerGroup ==
    Returned("aggregate_data") =>
        /\ Injective(OutputKeys)
        /\ Range(OutputKeys) \ {NaN} = InputKeys \ {NaN}
        /\ NaN \in Range(OutputKeys) <=>
              (NaN \in InputKeys /\ args0.aggregation_information.rows = <<>>)

\* two groups and rows with a missing grouping value, under two instructions
C5_Witness ==
    /\ Returned("aggregate_data")
    /\ InputKeys = {Owl, Hawk, NaN}
    /\ Len(args0.aggregation_information.rows) = 2
    /\ Len(result.rows) = 2

\* C6: repl_with_agg_string replaces every value of the column by its group
\* label; when some row's value is no key of the map the call raises KeyError
\* and returns nothing, so no unmapped value reaches an output.
C6_RemapOrKeyError ==
    Ended("repl_with_agg_string") =>
        LET d == args0.data
            p == ColPos(d, args0.column)
            items == args0.replacement_string_dict.items
            Mapped(v) == \E k \in 1..Len(items) : items[k].key = v
        IN  IF \A i \in 1..Len(d.rows) : Mapped(d.rows[i].cells[p])
            THEN /\ pc = "returned"
                 /\ result.columns = d.columns
                 /\ Len(result.rows) = Len(d.rows)
                 /\ \A i \in 1..Len(d.rows) : \A c \in 1..Len(d.columns) :
                      IF c = p
                      THEN \E k \in 1..Len(items) :
                              /\ items[k].key = d.rows[i].cells[c]
                              /\ result.rows[i].cells[c] = items[k].label
                      ELSE result.rows[i].cells[c] = d.rows[i].cells[c]
            ELSE pc = "raised" /\ err = "KeyError" /\ result = None

\* a first row with a key of the map, a second without: the call raises
C6_Witness ==
    /\ Ended("repl_with_agg_string")
    /\ Len(args0.data.rows) = 2
    /\ \E k \in 1..Len(args0.replacement_string_dict.items) :
         args0.replacement_string_dict.items[k].key = args0.data.rows[1].cells[1]
    /\ \A k \in 1..Len(args0.replacement_string_dict.items) :
         args0.replacement_string_dict.items[k].key # args0.data.rows[2].cells[1]
    /\ pc = "raised" /\ err = "KeyError"

RecognizedNames ==
    {"mean", "median", "max", "min", "dummy", "one", "two", "three", "four",
     "five", "six"}

\* C7: an aggregation instruction whose function name is outside mean, median,
\* max, min, dummy, one..six fails with an error and gives no aggregated column
\* (stated for a dataset that has rows to aggregate).
C7_UnknownNameFails ==
    (/\ Ended("aggregate_col")
     /\ args0.agg_function \notin RecognizedNames
     /\ Len(args0.data.rows) > 0) =>
        pc = "raised" /\ result = None

\* the tokens of a value: the parts between commas of a text of more than one
\* character, else the value itself as text
ClaimTokens(v) ==
    CASE v.t = "str" -> IF Len(v.s) > 1 THEN SplitComma(v.s) ELSE <<v.s>>
      [] v.t = "int" -> <<IntToStr(v.n)>>
      [] OTHER -> <<IntToStr(v.n) \o <<".", "0">>>>

\* C8: split_categorical_vars returns one row per input row, in order, and one
\* column per map entry, in map order; the column of key T is 1 in a row
\* exactly when T is one of the row's tokens; a NaN row is all 0.
C8_SplitIndicators ==
    Ended("split_categorical_vars") =>
        LET m == args0.values_and_labels
        IN  /\ pc = "returned"
            /\ result.columns = [k \in 1..Len(m) |-> m[k].label]
            /\ Len(result.rows) = Len(args0.series)
            /\ \A i \in 1..Len(args0.series) : \A k \in 1..Len(m) :
                 result.rows[i].cells[k] =
                   IF /\ args0.series[i].val # NaN
                      /\ m[k].key \in Range(ClaimTokens(args0.series[i].val))
                   THEN IntV(1) ELSE IntV(0)

\* C9: a call leaves the objects passed to it as they were, the column labels
\* of the instruction tables included.
C9_ArgumentsUnchanged == args = args0

StageNames == {"split", "normalize", "remap", "aggregate"}

StageRank(stage) ==
    CASE stage = "split" -> 1 [] stage = "normalize" -> 2
      [] stage = "remap" -> 3 [] OTHER -> 4

\* the configuration argument of a stage was supplied by the caller
Supplied(stage) ==
    CASE stage = "split" -> args0.split_info # None
      [] stage = "normalize" -> args0.normalization_info # None
      [] stage = "remap" -> args0.aggregation_category_dict # None
      [] OTHER -> args0.aggregation_information # None

Executed(stage) == \E k \in 1..Len(stages) : stages[k].stage = stage

\* a dataset is its columns and its ordered rows
SameData(a, b) ==
    /\ a.columns = b.columns
    /\ Len(a.rows) = Len(b.rows)
    /\ \A i \in 1..Len(a.rows) : a.rows[i].cells = b.rows[i].cells

\* C10: create_data executes its stages in the order split, normalize, remap,
\* aggregate; a stage is executed if and only if its configuration is
\* supplied; each is given the dataset the stage executed before it gave (the
\* first the input); with nothing supplied the result is the input with its
\* row index reset.
C10_PipelineOrder ==
    call = "create_data" =>
        /\ \A k \in 1..(Len(stages) - 1) :
             StageRank(stages[k].stage) < StageRank(stages[k + 1].stage)
        /\ \A s \in StageNames : Executed(s) => Supplied(s)
        /\ \A s \in StageNames :
             (Supplied(s) /\ (pc = "returned" \/ (pc \in StageNames /\ StageRank(s) < StageRank(pc))))
                => Executed(s)
        /\ \A k \in 1..Len(stages) :
             SameData(stages[k].input,
                      IF k = 1 THEN args0.data ELSE stages[k - 1].output)
        /\ pc = "returned" =>
             SameData(result, IF stages = <<>> THEN args0.data
                              ELSE stages[Len(stages)].output)
        /\ (pc = "returned" /\ \A s \in StageNames : ~Supplied(s)) =>
             result = ResetIndex(args0.data)

\* all four stages executed on a dataset that keeps rows to the end
C10_Witness ==
    /\ Returned("create_data")
    /\ Len(stages) = 4
    /\ Len(result.rows) >= 1
    /\ args0.data.rows[1].idx # 0

\* the capital letters of the alphabet of the inputs
Capitals == {"A", "B", "G", "H"}

\* the raw string of input row i of get_lookup, and its replacement slots
RawOf(i) == args0.df.rows[i].rawstring
SlotsOf(i) == args0.df.rows[i].repl

\* two raw strings are equal up to letter case
SameUpToCase(a, b) == Lower(a) = Lower(b)

\* the input rows that are the first with their raw string up to letter case
FirstRows ==
    {i \in 1..Len(args0.df.rows) :
        \A j \in 1..(i - 1) : ~SameUpToCase(RawOf(j), RawOf(i))}

\* the filled slots of the first rows, and the rank of one in row-then-slot order
FilledSlots ==
    {p \in FirstRows \X (1..(Len(NormalizationColumns) - 1)) :
        p[2] <= Len(SlotsOf(p[1])) /\ SlotsOf(p[1])[p[2]] # NaN}

SlotRank(p) ==
    Cardinality({q \in FilledSlots : q[1] < p[1] \/ (q[1] = p[1] /\ q[2] <= p[2])})

\* C11: get_lookup returns (rawstring, normalized) pairs in which every
\* rawstring is lowercase; a missing replacement slot contributes no pair;
\* of several input rows whose raw strings are equal up to letter case only
\* the first contributes, its filled slots in slot order; and the pairs of
\* different raw strings follow the order of the input rows.
C11_LookupPairs ==
    Returned("get_lookup") =>
        /\ \A k \in 1..Len(result) :
              \A c \in 1..Len(result[k].rawstring) : result[k].rawstring[c] \notin Capitals
        /\ Len(result) = Cardinality(FilledSlots)
        /\ \A p \in FilledSlots :
              result[SlotRank(p)] =
                  [rawstring |-> Lower(RawOf(p[1])), normalized |-> SlotsOf(p[1])[p[2]]]

\* two rows whose raw strings differ in letter case only, the first with a
\* missing slot between two filled ones, the second with a filled slot
C11_Witness ==
    /\ Returned("get_lookup")
    /\ Len(args0.df.rows) = 2
    /\ RawOf(1) # RawOf(2) /\ SameUpToCase(RawOf(1), RawOf(2))
    /\ SlotsOf(1) = <<GilaT, NaN, GilaW>>
    /\ \E s \in 1..Len(SlotsOf(2)) : SlotsOf(2)[s] # NaN
    /\ Len(result) = 2

\* the instructions given to aggregate_data, the columns flagged dummy and the
\* instructions with another function, in the order given
Given == args0.aggregation_information.rows

DummyFlagged == {Given[k].variable : k \in {m \in 1..Len(Given) : Given[m].agg_function = "dummy"}}

RECURSIVE NonDummy(_)
NonDummy(k) ==
    IF k > Len(Given) THEN <<>>
    ELSE (IF Given[k].agg_function # "dummy" THEN <<Given[k]>> ELSE <<>>) \o NonDummy(k + 1)

\* the distinct values of a column of the input, the missing one apart
ValuesOf(v) ==
    {args0.data.rows[i].cells[ColPos(args0.data, v)] : i \in InputRows} \ {NaN}

\* the one-hot columns: the original column name as prefix, one per value
OneHot == {[variable |-> v, value |-> x] : v \in DummyFlagged, x \in UNION {ValuesOf(w) : w \in DummyFlagged}}

OneHotColumns == {h \in OneHot : h.value \in ValuesOf(h.variable)}

OneHotName(h) == DummyName(h.variable, PyStr(h.value))

\* some input row of the group of output row j has value x in column v
GroupHas(j, v, x) ==
    \E i \in InputRows :
        /\ GroupCell(i) = OutputKeys[j]
        /\ args0.data.rows[i].cells[ColPos(args0.data, v)] = x

\* what instruction ins gives for the group of output row j when applied alone
AppliedAlone(ins, j) ==
    aggregate_col(args0.data, args0.aggregation_variable,
                  ins.variable, ins.agg_function).val[OutputKeys[j]]

\* no column is flagged dummy twice
DummyOnce ==
    \A k, m \in 1..Len(Given) :
        (Given[k] = Given[m] /\ Given[k].agg_function = "dummy") => k = m

\* C12: in aggregate_data, when some instructions have function "dummy", the
\* instructions applied have no entry for those original columns and one
\* "max" instruction per one-hot column (original column name as prefix, one
\* column per distinct value), so that for every group each such output
\* column is 1 if and only if some row of the group has that value; all the
\* instructions with another function are applied unchanged.
C12_DummyInstructions ==
    (Ended("aggregate_data") /\ DummyFlagged # {} /\ DummyOnce) =>
        /\ pc = "returned"
        /\ \A v \in DummyFlagged : ~HasColumn(result, v)
        /\ Len(result.columns) = 1 + Len(NonDummy(1)) + Cardinality(OneHotColumns)
        /\ \A h \in OneHotColumns :
              /\ HasColumn(result, OneHotName(h))
              /\ \A j \in 1..Len(result.rows) :
                    result.rows[j].cells[ColPos(result, OneHotName(h))] =
                        IF GroupHas(j, h.variable, h.value) THEN Num(1) ELSE Num(0)
        /\ \A m \in 1..Len(NonDummy(1)) : \A j \in 1..Len(result.rows) :
              result.rows[j].cells[1 + m] = AppliedAlone(NonDummy(1)[m], j)

====
